---------------------------- MODULE Spec2Model ----------------------------
(***************************************************************************)
(* State-machine model of the SkewT component (src/src/index.ts): the      *)
(* render pass run by the component's effect, the geometry it appends to   *)
(* the drawing surface, and the probe (tooltip) handlers installed on the  *)
(* hover overlay.                                                          *)
(*                                                                         *)
(* An optional field of a measurement is a sequence: << >> when the field  *)
(* is absent (typeof is not 'number'), <<v>> when it holds the number v.   *)
(* A curve point and a placed barb carry the pressure of the sample they   *)
(* were computed from; the pixel coordinates are injective functions of    *)
(* (value, pressure) and are not needed to tell points apart.              *)
(*                                                                         *)
(* A screen abscissa is kept as the term of its computation: the record    *)
(* [temp, press, off] stands for x(temp) + (y(basep) - y(press)) / tan +   *)
(* off / 10 pixels.  A pixel row is kept as the pressure p of y(p).  A     *)
(* non-integer number is a record [milli, nano] of thousandths and of      *)
(* 10^-9 units below one thousandth.                                       *)
(***************************************************************************)
EXTENDS Integers, Sequences, FiniteSets

VARIABLES
    data,        \* props.data of the latest render pass (<< >> when missing)
    missing,     \* TRUE when props.data is undefined or null
    props,       \* the other props the latest pass closed over
    callerArray, \* contents of the caller's array object behind props.data
    passes,      \* number of effect runs so far
    raised,      \* << >> or <<e>>: error thrown by the latest effect run
    surface,     \* attributes of the svg wrapper and text of the title
    scene,       \* number of elements of each class inside the svg wrapper
    skewtline,   \* closure variable skewtline of the latest pass
    topp,        \* closure variable topp of the latest pass
    background,  \* geometry drawBackground appended in the latest pass
    glyphs,      \* glyph definitions makeWindbarbs appended in the latest pass
    barbs,       \* <use> elements appended to the latest pass's barbgroup
    tempPath,    \* drawn segments of the latest pass's temperature path
    dewPath,     \* drawn segments of the latest pass's dew-point path
    focus,       \* display style of the latest pass's four focus groups
    sel,         \* << >> or <<d>>: sample chosen by the latest mousemove
    y0,          \* << >> or <<p>>: probe pressure of the latest mousemove
    lastEvent,   \* latest pointer event delivered to the latest overlay
    texts,       \* text of the latest pass's four focus groups
    uprobe,      \* the probe of utils/drawFunctions.ts, when a caller set it up
    clickLog,    \* one entry per click on the download button, oldest first
    io,          \* what the download closures did outside the component
    call,        \* << >> or <<c>>: argument of a call of a pure function
    ret          \* << >> or <<r>>: what the call returned

renderVars == <<data, missing, props, callerArray, passes, raised, surface,
                scene, skewtline, topp, background, glyphs, barbs, tempPath,
                dewPath>>

probeVars == <<focus, sel, y0, lastEvent, texts>>

exportVars == <<clickLog, io>>

callVars == <<call, ret>>

vars == <<renderVars, probeVars, exportVars, callVars, uprobe>>

-----------------------------------------------------------------------------
(* Bounds of the model *)

\* longest input profile
MaxLen == 3

\* number of render passes on one mounted component
MaxPasses == 2

\* number of clicks on the download button
MaxClicks == 2

-----------------------------------------------------------------------------
(* Inputs *)

PressLevels == {40, 700, 850, 1000}

NoValue == << >>

\* field configurations of a measurement (press is added by MkSample)
FullKind   == [hght |-> <<1537>>, temp |-> <<14>>, dwpt |-> <<8>>,
               wdir |-> <<220>>, wspd |-> <<12>>]
NoTempKind == [FullKind EXCEPT !.temp = NoValue]
SentDwptKind == [FullKind EXCEPT !.dwpt = <<-9999>>]
NoHghtKind == [FullKind EXCEPT !.hght = NoValue, !.wdir = <<-1>>]
NoWspdKind == [FullKind EXCEPT !.wspd = NoValue]

Kinds == {FullKind, NoTempKind, SentDwptKind, NoHghtKind, NoWspdKind}

MkSample(p, k) ==
    [press |-> p, hght |-> k.hght, temp |-> k.temp, dwpt |-> k.dwpt,
     wdir |-> k.wdir, wspd |-> k.wspd]

Samples == {MkSample(p, k) : p \in PressLevels, k \in Kinds}

Ascending(s) == \A i \in 1..(Len(s) - 1) : s[i].press < s[i + 1].press
Descending(s) == \A i \in 1..(Len(s) - 1) : s[i].press > s[i + 1].press
Monotonic(s) == Ascending(s) \/ Descending(s)

SeqsUpTo(S, n) == UNION {[1..k -> S] : k \in 0..n}

\* profiles a caller passes: pressure-ordered either way, at most MaxLen long
Profiles == {s \in SeqsUpTo(Samples, MaxLen) : Monotonic(s)}

\* profiles a change of props.data brings in
Replacements == {<< >>} \cup {<<s>> : s \in Samples}

\* pressure levels of the one-sample profiles, one of them beyond the base
\* pressure of the frame
WideLevels == PressLevels \cup {1060}

\* the sample data of the README
ReadmeData ==
    << [press |-> 1000, hght |-> <<111>>, temp |-> <<25>>, dwpt |-> <<20>>,
        wdir |-> <<160>>, wspd |-> <<5>>],
       [press |-> 850, hght |-> <<1537>>, temp |-> <<14>>, dwpt |-> <<8>>,
        wdir |-> <<220>>, wspd |-> <<12>>],
       [press |-> 700, hght |-> <<3100>>, temp |-> <<2>>, dwpt |-> <<-5>>,
        wdir |-> <<250>>, wspd |-> <<25>> ] >>

\* a calm wind (1 m/s is 1.9 kt) and a storm (60 m/s is 116.6 kt)
CalmKind == [FullKind EXCEPT !.wspd = <<1>>]

StormKind == [FullKind EXCEPT !.wspd = <<60>>]

\* profiles the component is mounted with when its export is exercised
ShortProfiles ==
    {<< >>, ReadmeData}
        \cup {<<MkSample(p, k)>> : p \in WideLevels, k \in Kinds}
        \cup {<<MkSample(850, k)>> : k \in {CalmKind, StormKind}}

\* the props of the README's basic usage; a string that is trimmed is kept
\* as its words and the white space around them, an absent className as ""
DefaultProps ==
    [siteName |-> "Example Station",
     sourceName |-> <<"Radiosonde", " ", "Data">>,
     width |-> 750, height |-> 620, speedUnit |-> "kmh", className |-> "",
     onDownload |-> FALSE]

\* with and without a custom download handler
PropsSet == {[DefaultProps EXCEPT !.onDownload = b] : b \in BOOLEAN}

\* props that differ in what the title and the svg wrapper show
FrameProps ==
    {[DefaultProps EXCEPT !.siteName = site, !.sourceName = source,
                          !.width = wh[1], !.height = wh[2], !.className = c] :
        site \in {"Example Station", "KOUN"},
        source \in {<<"Radiosonde", " ", "Data">>, <<" ", "GFS", " ">>},
        wh \in {<<750, 620>>, <<750, 500>>, <<600, 620>>, <<600, 500>>},
        c \in {"", "my-chart"}}

\* profiles and display units the two probes are compared on
ProbeProfiles == {s \in Profiles : Len(s) <= 2}

ProbeProps == {[DefaultProps EXCEPT !.speedUnit = u] : u \in {"kmh", "kt", "ms"}}

\* arguments convertWindSpeed is called with
Units == {"ms", "kt", "kmh", "unknown"}

Speeds == 0..40

ConvertCalls == [value : Speeds, unit : Units]

\* wind speeds a barb is placed for, in tenths of a m/s: 0, 0.1, ..., 103
SpeedTenths == 0..1030

\* pressures a pointer position can invert to
ProbePressures == {60, 370, 700, 720, 775, 850, 930, 1000, 1040}

-----------------------------------------------------------------------------
(* Constants of the program *)

DEFAULT_BASE_PRESSURE == 1050

DefaultSmallestPressure == 100

MinTopPressure == 50

TopMargin == 10

Sentinel == -1000

DEFAULT_MARGIN == [top |-> 30, right |-> 40, bottom |-> 20, left |-> 30]

LegendRoom == 50

STANDARD_PRESSURE_LINES == {1000, 850, 700, 500, 300, 200, 100, 50}

\* the pressure written into the isotherms' upper end
IsothermTopPressure == 100

\* the isotherms' shift, in tenths of a pixel
IsothermShift == -5

-----------------------------------------------------------------------------
(* Pure helpers *)

IsNumber(v) == Len(v) = 1

Abs(n) == IF n < 0 THEN -n ELSE n

Max(a, b) == IF a > b THEN a ELSE b

\* value * (f.milli / 10^3 + f.nano / 10^9) for an integer value >= 0
Times(value, f) ==
    LET low == value * f.nano
    IN  [milli |-> value * f.milli + low \div 1000000, nano |-> low % 1000000]

\* convertWindSpeed of utils/conversions.ts
convertWindSpeed(value, unit) ==
    CASE unit = "kt" -> Times(value, [milli |-> 1943, nano |-> 844492])
      [] unit = "kmh" -> Times(value, [milli |-> 3600, nano |-> 0])
      [] OTHER -> Times(value, [milli |-> 1000, nano |-> 0])

\* the component's convertWindSpeed, with the km/h factor for every unit
convertWindSpeedAllKmh(value, unit) ==
    Times(value, [milli |-> 3600, nano |-> 0])

\* the component's own convertWindSpeed
convertWindSpeedLocal(value, unit) ==
    CASE unit = "kt" -> Times(value, [milli |-> 1943, nano |-> 844492])
      [] unit = "kmh" -> Times(value, [milli |-> 3600, nano |-> 0])
      [] OTHER -> Times(value, [milli |-> 1000, nano |-> 0])

\* the values of d3.range(start, stop, step), step > 0
RangeCount(start, stop, step) == Max(0, -((start - stop) \div step))

Range(start, stop, step) ==
    {start + k * step : k \in 0..(RangeCount(start, stop, step) - 1)}

\* the abscissa x(temp) + (y(basep) - y(press)) / tan + off / 10
SkewX(temp, press, off) == [temp |-> temp, press |-> press, off |-> off]

\* plot width and height of a pass
PlotWidth(p) == p.width - DEFAULT_MARGIN.left - DEFAULT_MARGIN.right

PlotHeight(p) == p.height - DEFAULT_MARGIN.top - DEFAULT_MARGIN.bottom - LegendRoom

\* String.prototype.trim on a string kept as words and white space
RECURSIVE TrimStart(_)
TrimStart(input) ==
    IF input # << >> /\ Head(input) = " " THEN TrimStart(Tail(input)) ELSE input

RECURSIVE TrimEnd(_)
TrimEnd(input) ==
    IF input # << >> /\ input[Len(input)] = " "
    THEN TrimEnd(SubSeq(input, 1, Len(input) - 1))
    ELSE input

normalizeString(input) ==
    IF input = << >> THEN << >> ELSE TrimEnd(TrimStart(input))

\* the svg wrapper and the title the effect creates when the chart holds none
CreateSurface(p) ==
    [created |-> TRUE, width |-> p.width, height |-> p.height,
     class |-> IF p.className = "" THEN "skewt-chart" ELSE p.className,
     title |-> <<"Site: ", p.siteName, " / Data source: ">>
                   \o normalizeString(p.sourceName)]

NoSurface ==
    [created |-> FALSE, width |-> 0, height |-> 0, class |-> "", title |-> << >>]

\* typeof v === 'number' && v > -1000, dropping the sentinel comparison
DefinedNoSentinel(v) == IsNumber(v)

\* typeof v === 'number' && v > -1000
Defined(v) == IsNumber(v) /\ v[1] > Sentinel

RECURSIVE ReduceMin(_, _, _)
ReduceMin(m, i, min) ==
    IF i > Len(m) THEN min
    ELSE ReduceMin(m, i + 1, IF m[i].press < min THEN m[i].press ELSE min)

getSmallestPressureValue(measurements) ==
    IF Len(measurements) = 0 THEN DefaultSmallestPressure
    ELSE ReduceMin(measurements, 1, measurements[1].press)

\* topp without the floor of 50
ComputeToppNoFloor(d) == getSmallestPressureValue(d) - TopMargin

ComputeTopp(d) == Max(MinTopPressure, getSmallestPressureValue(d) - TopMargin)

\* d3.range(start, stop, step) as its first value, step and length
RangeOf(start, stop, step) ==
    [start |-> start, step |-> step, count |-> RangeCount(start, stop, step)]

\* the values of a range kept that way
Values(r) == {r.start + k * r.step : k \in 0..(r.count - 1)}

\* what drawBackground appends: one isotherm per value d of temps, from
\* (x(d) - 0.5 + (y(basep) - y(100)) / tan, 0) to (x(d) - 0.5, h), one isobar
\* per pressure line, one dry adiabat per value of dryad over the grid pp
drawBackground(top) ==
    [temps |-> RangeOf(-100, 45, 10),
     x1 |-> [press |-> IsothermTopPressure, off |-> IsothermShift],
     x2 |-> [press |-> DEFAULT_BASE_PRESSURE, off |-> IsothermShift],
     isobars |-> STANDARD_PRESSURE_LINES,
     dryad |-> RangeOf(-30, 240, 20),
     pp |-> RangeOf(top, DEFAULT_BASE_PRESSURE + 1, 10)]

NoBackground ==
    [temps |-> RangeOf(0, 0, 10),
     x1 |-> [press |-> 0, off |-> 0],
     x2 |-> [press |-> 0, off |-> 0],
     isobars |-> {},
     dryad |-> RangeOf(0, 0, 20),
     pp |-> RangeOf(0, 0, 10)]

\* abscissa of the upper (pixel row 0) and lower (pixel row h) end of the
\* isotherm of d in background bg
IsothermX1(bg, d) == SkewX(<<d>>, bg.x1.press, bg.x1.off)

IsothermX2(bg, d) == SkewX(<<d>>, bg.x2.press, bg.x2.off)

\* abscissa of the point of the dry adiabat d at pressure p; <<d, p>> stands
\* for the temperature (273.15 + d) / (1000 / p)^0.286 - 273.15
DryAdiabatX(d, p) == SkewX(<<d, p>>, p, 0)

\* one glyph, its pennants counted without taking the flags off
GlyphKeepsFlags(d) ==
    LET flags == d \div 50
        pennants == d \div 10
        halfpennants == (d - flags * 50 - (d \div 10) * 10) \div 5
    IN  [id |-> d, stems |-> 1, flags |-> flags, pennants |-> pennants,
         halfpennants |-> halfpennants]

\* one glyph of makeWindbarbs: a stem line, one polyline per flag, one line per
\* pennant and per half pennant
Glyph(d) ==
    LET flags == d \div 50
        pennants == (d - flags * 50) \div 10
        halfpennants == (d - flags * 50 - pennants * 10) \div 5
    IN  [id |-> d, stems |-> 1, flags |-> flags, pennants |-> pennants,
         halfpennants |-> halfpennants]

makeWindbarbs == {Glyph(d) : d \in Range(5, 105, 5)}

SkewtlineFilter(d) ==
    SelectSeq(d, LAMBDA s : Defined(s.temp) /\ Defined(s.dwpt))

\* d3.bisector(d => d.press).left(a, x, lo, hi); lo, hi and the result are the
\* zero-based indices of the source, a[mid + 1] is the source's a[mid]
RECURSIVE bisectTemp(_, _, _, _)
bisectTemp(a, x, lo, hi) ==
    IF lo < hi
    THEN LET mid == (lo + hi) \div 2
         IN  IF a[mid + 1].press < x
             THEN bisectTemp(a, x, mid + 1, hi)
             ELSE bisectTemp(a, x, lo, mid)
    ELSE lo

\* the segments d3.line().defined(...) draws: pts[i] is emitted when def[i],
\* and an undefined entry ends the segment in progress
RECURSIVE LineSegments(_, _, _, _, _)
LineSegments(pts, def, i, cur, acc) ==
    IF i > Len(pts)
    THEN IF cur = << >> THEN acc ELSE Append(acc, cur)
    ELSE IF def[i]
         THEN LineSegments(pts, def, i + 1, Append(cur, pts[i]), acc)
         ELSE LineSegments(pts, def, i + 1, << >>,
                           IF cur = << >> THEN acc ELSE Append(acc, cur))

\* templine applied to skewtlines[0]
templine(line) ==
    LineSegments([i \in 1..Len(line) |->
                     [press |-> line[i].press, val |-> line[i].temp,
                      x |-> SkewX(line[i].temp, line[i].press, 0)]],
                 [i \in 1..Len(line) |-> Defined(line[i].temp)],
                 1, << >>, << >>)

\* dewline applied to skewtlines[0]
dewline(line) ==
    LineSegments([i \in 1..Len(line) |->
                     [press |-> line[i].press, val |-> line[i].dwpt,
                      x |-> SkewX(line[i].dwpt, line[i].press, 0)]],
                 [i \in 1..Len(line) |-> Defined(line[i].dwpt)],
                 1, << >>, << >>)

\* Math.floor(convertWindSpeed(wspd, 'kt') / 5) * 5 for wspd = tenths / 10
BarbBucketFloor(tenths) ==
    LET kts == convertWindSpeedLocal(tenths, "kt")
    IN  (kts.milli \div 50000) * 5

\* Math.round(convertWindSpeed(wspd, 'kt') / 5) * 5 for wspd = tenths / 10 >= 0:
\* the conversion of the tenths is ten times the knots, and Math.round(x) is
\* floor(x + 0.5)
BarbBucketOfTenths(tenths) ==
    LET kts == convertWindSpeedLocal(tenths, "kt")
    IN  ((kts.milli + 25000) \div 50000) * 5

\* Math.round(convertWindSpeed(wspd, 'kt') / 5) * 5 for an integer wspd >= 0
BarbBucket(wspd) == BarbBucketOfTenths(10 * wspd)

\* the wind filter of drawLines, without the wdir >= 0 test
WindOkNoDirSign(d, top) ==
    /\ IsNumber(d.wdir)
    /\ IsNumber(d.wspd) /\ d.wspd[1] >= 0
    /\ d.press >= top

\* the wind filter of drawLines
WindOk(d, top) ==
    /\ IsNumber(d.wdir) /\ d.wdir[1] >= 0
    /\ IsNumber(d.wspd) /\ d.wspd[1] >= 0
    /\ d.press >= top

BarbsFilter(line, top) == SelectSeq(line, LAMBDA d : WindOk(d, top))

\* one <use> element, its rotation being the wind direction itself
BarbUseNoTurn(d, w) ==
    [press |-> d.press, wdir |-> d.wdir, wspd |-> d.wspd,
     href |-> BarbBucket(d.wspd[1]), x |-> w, rotate |-> d.wdir[1]]

\* one <use> element: its glyph reference and its transform
\* translate(w, y(press)) rotate(wdir + 180)
BarbUse(d, w) ==
    [press |-> d.press, wdir |-> d.wdir, wspd |-> d.wspd,
     href |-> BarbBucket(d.wspd[1]), x |-> w, rotate |-> d.wdir[1] + 180]

PlaceBarbs(line, top, w) ==
    LET b == BarbsFilter(line, top)
    IN  [i \in 1..Len(b) |-> BarbUse(b[i], w)]

\* the caller's array after filter, reduce and d3's data joins read it, had
\* the filter removed the rejected samples in place
ReceiverFilteredInPlace(d) == SkewtlineFilter(d)

\* the caller's array after the pass read it with Array.prototype.filter,
\* reduce and d3's data joins, none of which writes to its receiver
ReceiverAfterPass(d) == d

-----------------------------------------------------------------------------
(* Probe handlers *)

AllShown == [tmpc |-> "shown", dwpc |-> "shown", hght |-> "shown", wspd |-> "shown"]

AllHidden == [tmpc |-> "none", dwpc |-> "none", hght |-> "none", wspd |-> "none"]

Display(b) == IF b THEN "shown" ELSE "none"

\* index chosen by the mousemove handler (zero-based, as in the source)
ProbeIndex(line, p) == bisectTemp(line, p, 1, Len(line) - 1)

\* the nearer of skewtline[i - 1] and skewtline[i]
Nearest(line, i, p) ==
    LET d0 == line[i]
        d1 == line[i + 1]
    IN  IF Abs(p - d0.press) < Abs(p - d1.press) THEN d0 ELSE d1

\* display styles the mousemove handler sets for the selected sample d
FocusFor(d) ==
    [tmpc |-> Display(Defined(d.temp)),
     dwpc |-> Display(Defined(d.dwpt)),
     hght |-> Display(IsNumber(d.hght)),
     wspd |-> Display(IsNumber(d.wspd) /\ d.wspd[1] >= 0)]

NoTexts == [tmpc |-> << >>, dwpc |-> << >>, hght |-> << >>, wspd |-> << >>]

\* Math.round(v * 10) as tenths, v kept to 10^-9
RoundToTenths(v) == (v.milli + 50) \div 100

\* texts the mousemove handler leaves for the selected sample d: a channel
\* whose field is not shown keeps the text t it had; Math.round of the
\* integral temp, dwpt and hght is the reading itself
TextsFor(d, t, unit) ==
    [tmpc |-> IF Defined(d.temp) THEN <<d.temp[1], "°C">> ELSE t.tmpc,
     dwpc |-> IF Defined(d.dwpt) THEN <<d.dwpt[1], "°C">> ELSE t.dwpc,
     hght |-> IF IsNumber(d.hght) THEN <<"-- ", d.hght[1], " m">> ELSE t.hght,
     wspd |-> IF IsNumber(d.wspd) /\ d.wspd[1] >= 0
              THEN <<RoundToTenths(convertWindSpeedLocal(d.wspd[1], unit)), " ", unit>>
              ELSE t.wspd]

\* the utility probe before and after setupTooltips of utils/drawFunctions.ts
NotInstalled ==
    [installed |-> FALSE, focus |-> AllHidden, sel |-> << >>, texts |-> NoTexts,
     raised |-> << >>]

UtilityInstalled == [NotInstalled EXCEPT !.installed = TRUE]

\* mousemove of the utility probe on the list it was set up with: d0 and d1
\* are read without a test of i, and reading press of an undefined d0 or d1
\* throws before any focus group is touched; the four blocks that follow are
\* those of the component's handler, with the utility's convertWindSpeed
UtilityMouseMove(u, list, p, unit) ==
    LET i == bisectTemp(list, p, 1, Len(list) - 1)
    IN  IF i < 1 \/ i >= Len(list)
        THEN [u EXCEPT !.raised = <<"TypeError">>]
        ELSE LET d == Nearest(list, i, p)
                 own == TextsFor(d, u.texts, unit)
             IN  [u EXCEPT !.sel = <<d>>,
                           !.focus = FocusFor(d),
                           !.texts =
                               [own EXCEPT !.wspd =
                                   IF IsNumber(d.wspd) /\ d.wspd[1] >= 0
                                   THEN <<RoundToTenths(convertWindSpeed(d.wspd[1], unit)),
                                          " ", unit>>
                                   ELSE u.texts.wspd]]

\* transform of the temperature focus for the selected sample d
tmpcTransform(d) == [x |-> SkewX(d.temp, d.press, 0), row |-> d.press]

\* the mouseout handler, leaving the wind-speed focus as it is
MouseOutKeepsWspd(f) == [AllHidden EXCEPT !.wspd = f.wspd]

\* the mouseout handler
MouseOutFocus(f) == AllHidden

-----------------------------------------------------------------------------
(* Initial state: the component is constructed, its effect has not run *)

NoScene ==
    [container |-> 0, background |-> 0, skewt |-> 0, windbarb |-> 0,
     tempPaths |-> 0, dewPaths |-> 0, glyphSets |-> 0, uses |-> 0,
     overlays |-> 0, focusGroups |-> 0, legends |-> 0, buttons |-> 0]

NoIo == [handlerCalls |-> 0, images |-> << >>, canvases |-> 0, saves |-> << >>]

\* the component constructed with data d (missing when m) and props p
Constructed(d, m, p) ==
    /\ data = d
    /\ missing = m
    /\ props = p
    /\ callerArray = d
    /\ passes = 0
    /\ raised = << >>
    /\ surface = NoSurface
    /\ scene = NoScene
    /\ skewtline = << >>
    /\ topp = DefaultSmallestPressure - TopMargin
    /\ background = NoBackground
    /\ glyphs = {}
    /\ barbs = << >>
    /\ tempPath = << >>
    /\ dewPath = << >>
    /\ focus = AllHidden
    /\ sel = << >>
    /\ y0 = << >>
    /\ lastEvent = "none"
    /\ texts = NoTexts
    /\ uprobe = NotInstalled
    /\ clickLog = << >>
    /\ io = NoIo

Init ==
    /\ \/ \E d \in Profiles : Constructed(d, FALSE, DefaultProps)
       \/ Constructed(<< >>, TRUE, DefaultProps)
    /\ call = << >>
    /\ ret = << >>

\* the component mounted on a short profile, with or without its data and
\* with or without a download handler
FullInit ==
    /\ \/ \E d \in ShortProfiles, p \in PropsSet : Constructed(d, FALSE, p)
       \/ \E p \in PropsSet : Constructed(<< >>, TRUE, p)
    /\ call = << >>
    /\ ret = << >>

\* a caller about to convert a wind speed
CallInit ==
    /\ Constructed(<< >>, FALSE, DefaultProps)
    /\ call \in {<<c>> : c \in ConvertCalls}
    /\ ret = << >>

-----------------------------------------------------------------------------
(* The download closure *)

FileName(p) == <<"SkewT-", p.siteName, "-", p.sourceName, ".png">>

\* the download closure without the return after the handler call
DownloadNoReturn(o, p) ==
    LET called == IF p.onDownload
                  THEN [o EXCEPT !.handlerCalls = @ + 1]
                  ELSE o
    IN  [called EXCEPT !.images =
            Append(@, [name |-> FileName(p), width |-> p.width, height |-> p.height])]

\* the download closure of a pass run with props p: the handler is called, or
\* an Image is given the serialized scene to load
Download(o, p) ==
    IF p.onDownload
    THEN [o EXCEPT !.handlerCalls = @ + 1]
    ELSE [o EXCEPT !.images =
            Append(@, [name |-> FileName(p), width |-> p.width, height |-> p.height])]

\* img.onload of the i-th image in flight: a canvas is created and the link
\* named after the closure's site and source is clicked
OnLoad(o, i) ==
    [o EXCEPT !.canvases = @ + 1,
              !.saves = Append(@, o.images[i].name),
              !.images = SubSeq(@, 1, i - 1) \o SubSeq(@, i + 1, Len(@))]

-----------------------------------------------------------------------------
(* Actions *)

\* One run of the effect (mount, or a change of a dependency): the svg wrapper
\* and the title are created when the container holds no svg yet; the groups, the
\* background, the glyph set, the barbs, the two paths, the legend, the button,
\* the focus groups and the overlay are appended to the wrapper.  With
\* props.data missing, data.filter throws after the four groups were appended;
\* an error thrown by an effect makes React unmount the component, so no
\* handler runs afterwards.
EffectBody(d, m, p) ==
    /\ passes < MaxPasses
    /\ raised = << >>
    /\ surface' = IF surface.created THEN surface ELSE CreateSurface(p)
    /\ texts' = NoTexts
    /\ data' = d
    /\ missing' = m
    /\ props' = p
    /\ passes' = passes + 1
    /\ topp' = ComputeTopp(d)
    /\ focus' = AllHidden
    /\ sel' = << >>
    /\ y0' = << >>
    /\ lastEvent' = "none"
    /\ IF m
       THEN /\ raised' = <<"TypeError">>
            /\ callerArray' = d
            /\ skewtline' = << >>
            /\ background' = NoBackground
            /\ glyphs' = {}
            /\ barbs' = << >>
            /\ tempPath' = << >>
            /\ dewPath' = << >>
            /\ scene' = [scene EXCEPT !.container = @ + 1,
                                      !.background = @ + 1,
                                      !.skewt = @ + 1,
                                      !.windbarb = @ + 1]
       ELSE LET line == SkewtlineFilter(d)
                top == ComputeTopp(d)
                placed == PlaceBarbs(line, top, PlotWidth(p))
            IN  /\ raised' = << >>
                /\ callerArray' = ReceiverAfterPass(d)
                /\ skewtline' = line
                /\ background' = drawBackground(top)
                /\ glyphs' = makeWindbarbs
                /\ barbs' = placed
                /\ tempPath' = templine(line)
                /\ dewPath' = dewline(line)
                /\ scene' = [container |-> scene.container + 1,
                             background |-> scene.background + 1,
                             skewt |-> scene.skewt + 1,
                             windbarb |-> scene.windbarb + 1,
                             tempPaths |-> scene.tempPaths + 1,
                             dewPaths |-> scene.dewPaths + 1,
                             glyphSets |-> scene.glyphSets + 1,
                             uses |-> scene.uses + Len(placed),
                             overlays |-> scene.overlays + 1,
                             focusGroups |-> scene.focusGroups + 4,
                             legends |-> scene.legends + 1,
                             buttons |-> scene.buttons + 1]
    /\ UNCHANGED <<exportVars, callVars>>

\* the effect of a component whose caller set up no utility probe
Effect(d, m, p) == EffectBody(d, m, p) /\ UNCHANGED uprobe

\* the effect runs at mount, and again without a change of its props
RenderPass == Effect(data, missing, props)

\* the effect runs again because props.data changed to d
DataChange(d) == passes > 0 /\ Effect(d, FALSE, props)

\* the effect runs again because siteName, sourceName, width, height,
\* speedUnit, className or onDownload changed
PropsChange(p) == passes > 0 /\ p # props /\ Effect(data, missing, p)

\* mouseover on the overlay
MouseOverBody ==
    /\ passes > 0
    /\ raised = << >>
    /\ focus' = AllShown
    /\ lastEvent' = "enter"
    /\ UNCHANGED <<renderVars, sel, y0, texts, exportVars, callVars>>

MouseOver == MouseOverBody /\ UNCHANGED uprobe

\* mouseout on the overlay
MouseOutBody ==
    /\ passes > 0
    /\ raised = << >>
    /\ focus' = MouseOutFocus(focus)
    /\ lastEvent' = "leave"
    /\ UNCHANGED <<renderVars, sel, y0, texts, exportVars, callVars>>

MouseOut == MouseOutBody /\ UNCHANGED uprobe

\* mousemove on the overlay, the pointer at the pixel row of pressure p
MouseMoveBody(p) ==
    /\ passes > 0
    /\ raised = << >>
    /\ topp <= p /\ p <= DEFAULT_BASE_PRESSURE
    /\ y0' = <<p>>
    /\ lastEvent' = "move"
    /\ LET i == ProbeIndex(skewtline, p)
       IN  IF i <= 0 \/ i >= Len(skewtline)
           THEN UNCHANGED <<focus, sel, texts>>
           ELSE LET d == Nearest(skewtline, i, p)
                IN  /\ sel' = <<d>>
                    /\ focus' = FocusFor(d)
                    /\ texts' = TextsFor(d, texts, props.speedUnit)
    /\ UNCHANGED <<renderVars, exportVars, callVars>>

MouseMove(p) == MouseMoveBody(p) /\ UNCHANGED uprobe

\* click on the download button of the latest pass, which lies on top of the
\* buttons of the earlier passes
DownloadClick ==
    /\ passes > 0
    /\ raised = << >>
    /\ Len(clickLog) < MaxClicks
    /\ clickLog' = Append(clickLog, [handler |-> props.onDownload,
                                     siteName |-> props.siteName,
                                     sourceName |-> props.sourceName])
    /\ io' = Download(io, props)
    /\ UNCHANGED <<renderVars, probeVars, callVars, uprobe>>

\* the i-th image in flight finishes loading
ImgLoad(i) ==
    /\ i \in 1..Len(io.images)
    /\ io' = OnLoad(io, i)
    /\ UNCHANGED <<renderVars, probeVars, clickLog, callVars, uprobe>>

\* a caller converts a wind speed with the exported utility and the component
\* converts the same speed with its own copy
Convert ==
    /\ call # << >>
    /\ ret = << >>
    /\ ret' = <<[utility |-> convertWindSpeed(call[1].value, call[1].unit),
                 component |-> convertWindSpeedLocal(call[1].value, call[1].unit)]>>
    /\ UNCHANGED <<renderVars, probeVars, exportVars, call, uprobe>>

Next ==
    \/ RenderPass
    \/ \E d \in Replacements : DataChange(d)
    \/ MouseOver
    \/ MouseOut
    \/ \E p \in ProbePressures : MouseMove(p)

Spec == Init /\ [][Next]_vars

\* every handler of the component
FullNext ==
    \/ RenderPass
    \/ \E d \in Replacements : DataChange(d)
    \/ \E p \in PropsSet : PropsChange(p)
    \/ MouseOver
    \/ MouseOut
    \/ \E p \in ProbePressures : MouseMove(p)
    \/ DownloadClick
    \/ \E i \in 1..MaxClicks : ImgLoad(i)

FullSpec == FullInit /\ [][FullNext]_vars

CallNext == Convert

CallSpec == CallInit /\ [][CallNext]_vars

\* drawLines about to compute the glyph reference of a sample whose wspd is
\* call[1] tenths of a m/s
BucketInit ==
    /\ Constructed(<< >>, FALSE, DefaultProps)
    /\ call \in {<<t>> : t \in SpeedTenths}
    /\ ret = << >>

\* the href accessor computes the bucket of the sample
Bucket ==
    /\ call # << >>
    /\ ret = << >>
    /\ ret' = <<BarbBucketOfTenths(call[1])>>
    /\ UNCHANGED <<renderVars, probeVars, exportVars, call, uprobe>>

\* the href accessor goes on to a sample with the faster wind t
Faster(t) ==
    /\ ret # << >>
    /\ t > call[1]
    /\ call' = <<t>>
    /\ ret' = <<BarbBucketOfTenths(t)>>
    /\ UNCHANGED <<renderVars, probeVars, exportVars, uprobe>>

BucketNext ==
    \/ Bucket
    \/ \E t \in SpeedTenths : Faster(t)

BucketSpec == BucketInit /\ [][BucketNext]_vars

\* the component mounted with props that differ in title and dimensions
FrameInit ==
    /\ \E p \in FrameProps : Constructed(ReadmeData, FALSE, p)
    /\ call = << >>
    /\ ret = << >>

FrameNext ==
    \/ RenderPass
    \/ \E p \in FrameProps : PropsChange(p)

FrameSpec == FrameInit /\ [][FrameNext]_vars

\* a caller sets up the utility probe on the list and with the unit the
\* component's own probe works on, and hands both the same pointer events
ProbeInit ==
    /\ \E d \in ProbeProfiles, p \in ProbeProps : Constructed(d, FALSE, p)
    /\ call = << >>
    /\ ret = << >>

InstallBoth ==
    /\ EffectBody(data, missing, props)
    /\ uprobe' = UtilityInstalled

BothMouseOver ==
    /\ MouseOverBody
    /\ uprobe' = [uprobe EXCEPT !.focus = AllShown]

BothMouseOut ==
    /\ MouseOutBody
    /\ uprobe' = [uprobe EXCEPT !.focus = AllHidden]

BothMouseMove(p) ==
    /\ MouseMoveBody(p)
    /\ uprobe' = UtilityMouseMove(uprobe, skewtline, p, props.speedUnit)

ProbeNext ==
    \/ InstallBoth
    \/ BothMouseOver
    \/ BothMouseOut
    \/ \E p \in ProbePressures : BothMouseMove(p)

ProbeSpec == ProbeInit /\ [][ProbeNext]_vars

-----------------------------------------------------------------------------
(* Vocabulary of the properties, stated on the input samples themselves *)

\* a temperature or dew-point reading: a number above the -1000 sentinel
HasReading(v) == v # << >> /\ v[1] > -1000

\* a wind direction or speed reading: a number that is not negative
HasWind(v) == v # << >> /\ v[1] >= 0

Indices(s) == 1..Len(s)

\* the pressures of the points of one drawn segment
SegmentPressures(seg) == {seg[j].press : j \in Indices(seg)}

\* the pressures of all points of a path
PathPressures(path) == UNION {SegmentPressures(path[i]) : i \in Indices(path)}

\* some drawn segment of the path runs through both pressures
Joined(path, p, q) ==
    \E i \in Indices(path) : {p, q} \subseteq SegmentPressures(path[i])

DistanceTo(p, d) == IF p >= d.press THEN p - d.press ELSE d.press - p

-----------------------------------------------------------------------------
(* C1 .. C10 *)

\* C1: after a pointer-move at pressure p0 over a pressure-monotonic profile of
\* at least 2 samples (the profile the handler searches), a sample is selected
\* and no sample of the profile is nearer to p0 than the selected one.
C1_NearestSample ==
    (lastEvent = "move" /\ Len(skewtline) >= 2 /\ Monotonic(skewtline))
        => /\ sel # << >>
           /\ \A i \in Indices(skewtline) :
                  DistanceTo(y0[1], sel[1]) <= DistanceTo(y0[1], skewtline[i])

\* C2: when a sample with an undefined temperature (dew point) lies between two
\* samples with a defined one, no drawn segment of the temperature (dew-point)
\* path joins those two samples.
C2_GapsSplitCurves ==
    passes > 0 =>
        \A i, j, k \in Indices(data) :
            (i < j /\ j < k) =>
                /\ (HasReading(data[i].temp) /\ ~HasReading(data[j].temp)
                        /\ HasReading(data[k].temp))
                       => ~Joined(tempPath, data[i].press, data[k].press)
                /\ (HasReading(data[i].dwpt) /\ ~HasReading(data[j].dwpt)
                        /\ HasReading(data[k].dwpt))
                       => ~Joined(dewPath, data[i].press, data[k].press)

\* C3: no point of the temperature path comes from a sample whose temp is
\* absent or <= -1000, and no point of the dew-point path from a sample whose
\* dwpt is absent or <= -1000.
C3_DefinednessGating ==
    \A i \in Indices(data) :
        /\ data[i].press \in PathPressures(tempPath) => HasReading(data[i].temp)
        /\ data[i].press \in PathPressures(dewPath) => HasReading(data[i].dwpt)

\* C3 witness: a pass drew both paths from a profile holding a sample without
\* temperature and a sample with a sentinel dew point.
C3_Witness ==
    /\ passes > 0
    /\ tempPath # << >> /\ dewPath # << >>
    /\ \E i \in Indices(data) : data[i].temp = << >>
    /\ \E i \in Indices(data) : data[i].dwpt # << >> /\ data[i].dwpt[1] <= -1000

\* C4: after a pass, every input sample with wdir >= 0, wspd >= 0 and
\* press >= topPressure has exactly one placed barb, whatever its temperature,
\* dew point and height.
C4_EveryWindSampleHasBarb ==
    passes > 0 =>
        \A i \in Indices(data) :
            (HasWind(data[i].wdir) /\ HasWind(data[i].wspd) /\ data[i].press >= topp)
                => Cardinality({b \in Indices(barbs) : barbs[b].press = data[i].press}) = 1

\* C5: every placed barb comes from a sample whose wdir and wspd are numbers
\* >= 0 and whose press >= topPressure.
C5_NoBarbWithoutWind ==
    \A b \in Indices(barbs) :
        \E i \in Indices(data) :
            /\ data[i].press = barbs[b].press
            /\ HasWind(data[i].wdir) /\ HasWind(data[i].wspd)
            /\ data[i].press >= topp

\* C5 witness: a pass placed a barb for a profile that also holds a sample
\* with drawable temperature and dew point but a negative direction, an absent
\* speed, or a pressure above the chart top.
C5_Witness ==
    /\ passes > 0
    /\ barbs # << >>
    /\ \E i \in Indices(data) :
           /\ HasReading(data[i].temp) /\ HasReading(data[i].dwpt)
           /\ data[i].wdir # << >> /\ data[i].wdir[1] < 0
    /\ \E i \in Indices(data) :
           /\ HasReading(data[i].temp) /\ HasReading(data[i].dwpt)
           /\ data[i].press < topp

\* C6: after any number of passes the scene holds the geometry of the latest
\* pass only: one background, one temperature path, one dew-point path, one
\* glyph set, one overlay, one legend, one button, and the latest barbs.
C6_OnlyLatestGeometry ==
    passes > 0 =>
        /\ scene.background = 1
        /\ scene.tempPaths = 1
        /\ scene.dewPaths = 1
        /\ scene.glyphSets = 1
        /\ scene.overlays = 1
        /\ scene.legends = 1
        /\ scene.buttons = 1
        /\ scene.uses = Len(barbs)

\* C7: the probe is idle when no pointer event or a pointer-leave was the last
\* event of the pass; while it is idle none of the four readouts is displayed.
C7_IdleHidesReadouts ==
    lastEvent \in {"none", "leave"}
        => /\ focus.tmpc = "none"
           /\ focus.dwpc = "none"
           /\ focus.hght = "none"
           /\ focus.wspd = "none"

\* C7 witness: the pointer left after a move that had selected a sample.
C7_Witness == lastEvent = "leave" /\ sel # << >>

\* C8: a pointer-move at the pressure of an input sample that lacks exactly one
\* of temperature, dew point, height and wind speed selects that sample and
\* hides that channel's readout only.  Read for the profiles the lookup is
\* written for: at least 2 samples, in ascending pressure order.
C8_AbsentFieldOwnChannel ==
    (lastEvent = "move" /\ Len(data) >= 2 /\ Ascending(data)) =>
        \A i \in Indices(data) :
            LET d == data[i]
                t == HasReading(d.temp)
                w == HasReading(d.dwpt)
                h == d.hght # << >>
                v == HasWind(d.wspd)
                lacking == Cardinality({c \in {<<1, t>>, <<2, w>>, <<3, h>>, <<4, v>>} : ~c[2]})
            IN  (d.press = y0[1] /\ lacking = 1)
                    => /\ sel = <<d>>
                       /\ focus.tmpc = (IF t THEN "shown" ELSE "none")
                       /\ focus.dwpc = (IF w THEN "shown" ELSE "none")
                       /\ focus.hght = (IF h THEN "shown" ELSE "none")
                       /\ focus.wspd = (IF v THEN "shown" ELSE "none")

\* C9: a readout is displayed only while a sample is selected and that
\* sample's field is defined (temp, dwpt: number > -1000; hght: number;
\* wspd: number >= 0).
C9_ReadoutOnlyForDefinedField ==
    /\ focus.tmpc = "shown" => (sel # << >> /\ HasReading(sel[1].temp))
    /\ focus.dwpc = "shown" => (sel # << >> /\ HasReading(sel[1].dwpt))
    /\ focus.hght = "shown" => (sel # << >> /\ sel[1].hght # << >>)
    /\ focus.wspd = "shown" => (sel # << >> /\ HasWind(sel[1].wspd))

\* C10: when the probe's profile has fewer than 2 samples, no sequence of
\* pointer events selects a sample or displays a readout.
C10_ShortProfileNoSample ==
    (passes > 0 /\ Len(skewtline) < 2)
        => /\ sel = << >>
           /\ focus.tmpc = "none"
           /\ focus.dwpc = "none"
           /\ focus.hght = "none"
           /\ focus.wspd = "none"

-----------------------------------------------------------------------------
(* Properties of the second group *)

\* a pass drew the three families of background lines over the grid that
\* starts at pressure p
BackgroundDrawnFrom(p) ==
    /\ background.temps.count > 0
    /\ background.isobars # {}
    /\ background.dryad.count > 0
    /\ background.pp.count > 0
    /\ background.pp.start = p

\* C11: a render pass whose data is an empty list, or is missing, raises no
\* error, draws the background from the default top pressure (100 - 10 hPa)
\* and leaves no curve point, no barb and no selected sample.
C11_EmptyOrMissingDegrades ==
    (passes > 0 /\ data = << >>) =>
        /\ raised = << >>
        /\ BackgroundDrawnFrom(90)
        /\ tempPath = << >> /\ dewPath = << >>
        /\ barbs = << >>
        /\ sel = << >>

\* number of clicks made while a download handler was (h) or was not supplied
ClicksWith(h) == Cardinality({i \in 1..Len(clickLog) : clickLog[i].handler = h})

\* C12: every click made with a handler supplied called the handler once and
\* started no rasterization, canvas or save; every click made without one
\* started one rasterization, which creates one canvas and triggers one save
\* named SkewT-{siteName}-{sourceName}.png when its image has loaded.
C12_ExportBranching ==
    /\ io.handlerCalls = ClicksWith(TRUE)
    /\ Len(io.images) + Len(io.saves) = ClicksWith(FALSE)
    /\ io.canvases = Len(io.saves)
    /\ \A i \in 1..Len(io.saves) :
          \E j \in 1..Len(clickLog) :
             /\ ~clickLog[j].handler
             /\ io.saves[i] = <<"SkewT-", clickLog[j].siteName, "-",
                                clickLog[j].sourceName, ".png">>

\* C12 witness: one click was made with a handler, another without, and the
\* file of the latter was saved.
C12_Witness == ClicksWith(TRUE) >= 1 /\ Len(io.saves) >= 1

\* v times one knot-per-m/s factor 1.943844492, by adding the factor v times
RECURSIVE KnotsOf(_)
KnotsOf(v) ==
    IF v = 0 THEN [milli |-> 0, nano |-> 0]
    ELSE LET prev == KnotsOf(v - 1)
             low == prev.nano + 844492
         IN  [milli |-> prev.milli + 1943 + low \div 1000000,
              nano |-> low % 1000000]

\* C13: a call convertWindSpeed(v, unit) returns v * 1.943844492 for "kt",
\* v * 3.6 for "kmh" and v itself for "ms" and for any other unit, and the
\* exported utility and the component's own copy return the same number.
C13_ConvertWindSpeed ==
    ret # << >> =>
        LET v == call[1].value
            unit == call[1].unit
            expected ==
                IF unit = "kt" THEN KnotsOf(v)
                ELSE IF unit = "kmh" THEN [milli |-> 3600 * v, nano |-> 0]
                ELSE [milli |-> 1000 * v, nano |-> 0]
        IN  /\ ret[1].utility = expected
            /\ ret[1].component = expected

\* C13 witness: 10 m/s was converted to knots, 19.43844492.
C13_Witness ==
    /\ ret # << >>
    /\ call[1] = [value |-> 10, unit |-> "kt"]
    /\ ret[1].component = [milli |-> 19438, nano |-> 444920]

\* C14: a pass that ran makeWindbarbs holds, for every bucket s of 5, 10, ...,
\* 100, exactly one glyph, with flags = floor(s / 50), pennants =
\* floor((s - 50 flags) / 10), half pennants = floor((s - 50 flags - 10
\* pennants) / 5), so that 50 flags + 10 pennants + 5 half pennants = s with
\* at most 4 pennants and 1 half pennant, and with one stem; bucket 65 has
\* one flag, one pennant and one half pennant.
C14_GlyphDecomposition ==
    (passes > 0 /\ raised = << >>) =>
        /\ \A k \in 1..20 :
              LET s == 5 * k
                  ofBucket == {g \in glyphs : g.id = s}
              IN  /\ Cardinality(ofBucket) = 1
                  /\ \A g \in ofBucket :
                        /\ g.flags = s \div 50
                        /\ g.pennants = (s - 50 * g.flags) \div 10
                        /\ g.halfpennants = (s - 50 * g.flags - 10 * g.pennants) \div 5
                        /\ 50 * g.flags + 10 * g.pennants + 5 * g.halfpennants = s
                        /\ g.pennants <= 4
                        /\ g.halfpennants <= 1
                        /\ g.stems = 1
        /\ \E g \in glyphs :
              g.id = 65 /\ g.flags = 1 /\ g.pennants = 1 /\ g.halfpennants = 1

\* C14 witness: a pass built the glyphs and placed a barb that refers to the
\* glyph of 25 knots, which has two pennants and a half pennant.
C14_Witness ==
    /\ passes > 0
    /\ \E i \in 1..Len(barbs) : barbs[i].href = 25
    /\ \E g \in glyphs :
          g.id = 25 /\ g.flags = 0 /\ g.pennants = 2 /\ g.halfpennants = 1

\* smallest press of a non-empty profile
MinPress(s) ==
    CHOOSE p \in {s[i].press : i \in 1..Len(s)} :
        \A i \in 1..Len(s) : p <= s[i].press

\* C15: in every pass topp = max(50, m - 10), m being the smallest press of
\* the data, or 100 when the data is empty or missing; a smallest press of
\* 700 gives 690 and a smallest press of at most 60 gives 50.
C15_TopPressure ==
    passes > 0 =>
        LET m == IF data = << >> THEN 100 ELSE MinPress(data)
        IN  /\ topp = (IF m - 10 >= 50 THEN m - 10 ELSE 50)
            /\ (m = 700 => topp = 690)
            /\ (m <= 60 => topp = 50)

\* C15 witness: a pass on a profile whose smallest press, 700, is not its
\* first sample's set topp to 690.
C15_Witness ==
    /\ passes > 0
    /\ Len(data) >= 2
    /\ data[1].press # 700
    /\ topp = 690

\* C16: the log-pressure domain [topp, 1050] a pass builds its frame on has
\* 0 < topp < 1050, whatever the input profile.
C16_PressureDomain ==
    passes > 0 => (0 < topp /\ topp < 1050)

\* C17: a pass whose pressure domain has no positive span (topp >= 1050) ends
\* in an error and appends no background, curve or barb geometry.  (The
\* temperature domain is the constant [-70, 50] and the skew angle the
\* constant 55 degrees.)
C17_DegenerateDomainFailsFast ==
    (passes > 0 /\ topp >= 1050) =>
        /\ raised # << >>
        /\ background = NoBackground
        /\ tempPath = << >> /\ dewPath = << >>
        /\ barbs = << >>

\* a pass drew the README's profile at width 750 and height 620
ReadmeDrawn ==
    /\ passes > 0
    /\ data = ReadmeData
    /\ props.width = 750 /\ props.height = 620

\* the angle of the rotation the transform rotate(deg) performs: rotations
\* that differ by full turns are the same rotation
Angle(deg) == deg % 360

\* C18: the README's profile at 750 x 620 with the default margins gets
\* exactly three barbs, each at x = 750 - 30 - 40 = 680 and at the row of its
\* pressure (1000, 850, 700 hPa), rotated by 340, 40 and 70 degrees
\* respectively.
C18_BarbPlacement ==
    ReadmeDrawn =>
        /\ Len(barbs) = 3
        /\ \A i \in 1..3 :
              /\ barbs[i].x = 680
              /\ barbs[i].press = <<1000, 850, 700>>[i]
              /\ Angle(barbs[i].rotate) = <<340, 40, 70>>[i]

\* C18 witness: a pass drew the README's profile and placed its barbs.
C18_Witness == ReadmeDrawn /\ Len(barbs) = 3 /\ scene.uses >= 3

\* C19: after any sequence of render passes, pointer events and download
\* clicks the array the caller passed as data has the length, the order and
\* the samples it was passed with.
C19_InputNeverMutated ==
    /\ Len(callerArray) = Len(data)
    /\ \A i \in 1..Len(data) : callerArray[i] = data[i]

\* C19 witness: a pass derived a shorter list from the data, the pointer moved
\* over the overlay and the download button was clicked.
C19_Witness ==
    /\ passes > 0
    /\ Len(skewtline) < Len(data)
    /\ lastEvent = "move"
    /\ clickLog # << >>

\* the abscissa x(t) + (y(1050) - y(p)) / tan(55 degrees) of the frame
SkewFormula(t, p) == [temp |-> t, press |-> p, off |-> 0]

\* C20: in the frame of a pass every isotherm has, at its upper end (the row
\* of topp) and at its lower end (the row of 1050 hPa), the abscissa
\* x(t) + (y(1050) - y(p)) / tan of its temperature t and of that row's
\* pressure p, and so have every point of the two profile paths, every point
\* of a dry adiabat and the marker of the temperature readout.
C20_SkewFormulaConsistency ==
    (passes > 0 /\ raised = << >>) =>
        /\ \A t \in Values(background.temps) :
              /\ IsothermX1(background, t) = SkewFormula(<<t>>, topp)
              /\ IsothermX2(background, t) = SkewFormula(<<t>>, 1050)
        /\ \A i \in 1..Len(tempPath) : \A j \in 1..Len(tempPath[i]) :
              tempPath[i][j].x = SkewFormula(tempPath[i][j].val, tempPath[i][j].press)
        /\ \A i \in 1..Len(dewPath) : \A j \in 1..Len(dewPath[i]) :
              dewPath[i][j].x = SkewFormula(dewPath[i][j].val, dewPath[i][j].press)
        /\ \A d \in Values(background.dryad) : \A p \in Values(background.pp) :
              DryAdiabatX(d, p) = SkewFormula(<<d, p>>, p)
        /\ (sel # << >> /\ focus.tmpc = "shown") =>
              tmpcTransform(sel[1]).x = SkewFormula(sel[1].temp, sel[1].press)

\* ten thousand times the knots of t tenths of a m/s, rounded down
KnotsE4(t) == t * 1943 + (t * 844492) \div 1000000

\* b is the multiple of 5 nearest to the knots of t tenths of a m/s
NearestFive(t, b) ==
    /\ b >= 0
    /\ b % 5 = 0
    /\ 10000 * b - 25000 <= KnotsE4(t)
    /\ KnotsE4(t) < 10000 * b + 25000

\* C21: the bucket computed for a wind speed s >= 0 is round(s * 1.943844492
\* / 5) * 5, a non-negative multiple of 5; the bucket of a faster wind is
\* never smaller, and from one tenth of a m/s to the next the bucket stays or
\* rises by exactly 5.
C21_BucketMonotone ==
    [][ /\ ret' # << >> => NearestFive(call'[1], ret'[1])
        /\ (ret # << >> /\ ret' # << >> /\ call[1] <= call'[1]) =>
              /\ ret[1] <= ret'[1]
              /\ (call'[1] = call[1] + 1) => (ret'[1] - ret[1] \in {0, 5}) ]_vars

\* C21 witness: the bucket of 5.0 m/s (9.72 kt) is 10.
C21_Witness == call = <<50>> /\ ret = <<10>>

\* C22: every barb a pass placed refers to a glyph that makeWindbarbs defined
\* in the same pass, also for a calm wind below 2.5 kt and for a wind above
\* 102.5 kt.
C22_BarbGlyphExists ==
    passes > 0 =>
        \A i \in 1..Len(barbs) : \E g \in glyphs : g.id = barbs[i].href

\* the points of a drawn path that lie at pressure p
PointsAt(path, p) ==
    {<<i, j>> \in (1..Len(path)) \X (1..MaxLen + 1) :
        j <= Len(path[i]) /\ path[i][j].press = p}

\* C23: after a pass every input sample whose temp is a number above -1000
\* has exactly one point on the temperature path, whatever its dwpt, and every
\* sample whose dwpt is a number above -1000 has exactly one point on the
\* dew-point path, whatever its temp.
C23_DefinedSampleOnCurve ==
    (passes > 0 /\ raised = << >>) =>
        \A i \in 1..Len(data) :
           /\ HasReading(data[i].temp) =>
                 Cardinality(PointsAt(tempPath, data[i].press)) = 1
           /\ HasReading(data[i].dwpt) =>
                 Cardinality(PointsAt(dewPath, data[i].press)) = 1

\* C24: in every pass each isobar and each placed barb lies at a pressure p of
\* the displayed range, topp <= p <= 1050, that is at a y of [0, h].
C24_GeometryInsideRange ==
    (passes > 0 /\ raised = << >>) =>
        /\ \A p \in background.isobars : topp <= p /\ p <= 1050
        /\ \A i \in 1..Len(barbs) : topp <= barbs[i].press /\ barbs[i].press <= 1050

\* C25: the component's probe and the utility probe, set up on the same
\* sample list with the same unit and given the same pointer events, have
\* selected the same sample, show and hide the same readouts with the same
\* texts, and neither has raised an error.
C25_ProbesEquivalent ==
    uprobe.installed =>
        /\ uprobe.sel = sel
        /\ uprobe.focus = focus
        /\ uprobe.texts = texts
        /\ uprobe.raised = << >>
        /\ raised = << >>

\* a string without the white space before its first and after its last word
Trimmed(str) ==
    LET words == {i \in 1..Len(str) : str[i] # " "}
    IN  IF words = {} THEN << >>
        ELSE SubSeq(str, CHOOSE i \in words : \A j \in words : i <= j,
                         CHOOSE i \in words : \A j \in words : i >= j)

\* C26: after any sequence of passes in which siteName, sourceName, width,
\* height or className change, the title reads "Site: {siteName} / Data
\* source: {trimmed sourceName}" for the current props and the svg wrapper
\* has the current width and height and, when a className is given, that
\* class.
C26_FrameFollowsProps ==
    passes > 0 =>
        /\ surface.title =
              <<"Site: ", props.siteName, " / Data source: ">> \o Trimmed(props.sourceName)
        /\ surface.width = props.width
        /\ surface.height = props.height
        /\ props.className # "" => surface.class = props.className

=============================================================================
